---- MODULE Spec2Model ----
(***************************************************************************)
(* CoinbaseWebSocket (src/src/websocket/CoinbaseWebSocket.ts): the stream  *)
(* connector (connect / open / error / close / reconnect / disconnect)     *)
(* and the tick-to-candle aggregator (processTickerUpdate), as one state   *)
(* machine.  One action per handler; an async handler is split at each     *)
(* await (the reconnect delay, the pending saveKline call).                *)
(*                                                                         *)
(* Input domain: a ticker message is a Tick: it carries a time that Date   *)
(* parses to an integer number of epoch milliseconds, a decimal price > 0  *)
(* and a decimal size >= 0; the model draws the parsed values, prices and  *)
(* sizes as integers (units of the smallest price / size step).  A ticker  *)
(* message whose time, price or size does not parse (NaN) is outside this  *)
(* domain.  The WebSocket constructor returns a socket; only SpecConn also *)
(* lets it throw, the case the catch block of connect() is written for.    *)
(***************************************************************************)
EXTENDS Integers, Sequences, FiniteSets, TLC

VARIABLES
    ws,                 \* this.ws: 0 (null) or the index of a socket
    reconnectAttempts,  \* this.reconnectAttempts
    currentKline,       \* this.currentKline: Null or a kline record
    klineStartTime,     \* this.klineStartTime
    klines,             \* this.klines, newest first
    lastTickTime,       \* this.lastTickTime
    processingKline,    \* this.processingKline
    sockets,            \* every WebSocket created so far, in creation order
    hostCalls,          \* connect() calls the host has made
    timers,             \* handleReconnect calls suspended in their setTimeout
    pending,            \* the processTickerUpdate call suspended in saveKline
    snap,               \* the array the host got from getKlines()
    hostShifts,         \* elements the host has removed from that array
    saved,              \* history: the klines handed to saveKline, in order
    folded,             \* history: the ticks folded into currentKline
    received,           \* history: the first ticker messages (SpecScenario)
    ev                  \* history: the handler that ran last, and its input

vars == <<ws, reconnectAttempts, currentKline, klineStartTime, klines,
          lastTickTime, processingKline, sockets, hostCalls, timers,
          pending, snap, hostShifts, saved, folded, received, ev>>

aggVars == <<currentKline, klineStartTime, klines, lastTickTime,
             processingKline, pending, saved, folded>>
connVars == <<ws, reconnectAttempts, sockets, hostCalls, timers>>

----------------------------------------------------------------------------
(* Program constants *)

MAX_RECONNECT_ATTEMPTS == 5
MAX_KLINES == 50
INTERVAL_MS == 60000

(* Bounds of the model *)

MaxSockets == 2          \* Spec: sockets created in a run
MaxHostConnects == 2     \* Spec: connect() calls the host makes
MaxHalfWindows == 3      \* Spec: ticks at 1..MaxHalfWindows half windows
MaxWindow == 2           \* SpecAgg: the start of each window 0..MaxWindow
MaxMessages == 3         \* SpecScenario: ticker messages in a run
MaxSocketsConn == 6      \* SpecConn: sockets created in a run
MaxHostConnectsConn == 2 \* SpecConn: connect() calls the host makes
MaxWindowHist == 52      \* SpecHist: ticks fall in windows 0..MaxWindowHist
MaxShifts == 2           \* SpecHist: elements the host removes from a snapshot
MaxSocketsCycle == 3     \* SpecCycle: sockets created in a run
MaxHalfWindowsLive == 4  \* SpecLive: ticks at 1..MaxHalfWindowsLive half windows
MaxHalfWindowsCycle == 7 \* SpecCycle: ticks at 1..MaxHalfWindowsCycle half windows

Null == [null |-> TRUE]

HalfWindow == INTERVAL_MS \div 2

\* The parsed event times, prices and sizes of the ticker messages.
\* Spec: every half window, on connections that close and reconnect.
Times == {k * HalfWindow : k \in 1..MaxHalfWindows}
Prices == {100}
Sizes == {1}
\* SpecAgg: two times in each of the first two windows, so
\* that a window folds more than one tick, and the start of each later one.
TimesAgg == {0, HalfWindow, INTERVAL_MS, INTERVAL_MS + HalfWindow}
              \cup {k * INTERVAL_MS : k \in 0..MaxWindow}
PricesAgg == {95, 100, 105}
SizesAgg == {0, 1}
\* SpecScenario: the ticks of the three-tick scenario and of the same
\* scenario one window later.
TimesScenario == {k * HalfWindow : k \in 0..4}
PricesScenario == {95, 100, 105}
SizesScenario == {1, 2}
\* SpecHist: a tick repeats the last time or comes half a window later.
TimesHist == {t \in {lastTickTime, lastTickTime + HalfWindow} :
                 t < (MaxWindowHist + 1) * INTERVAL_MS}
\* SpecCycle: every half window over four windows, so that several
\* rollovers happen on connections that close and reconnect.
TimesCycle == {k * HalfWindow : k \in 1..MaxHalfWindowsCycle}
\* SpecLive: every half window, with the prices and sizes of SpecAgg.
TimesLive == {k * HalfWindow : k \in 1..MaxHalfWindowsLive}
SaveOutcomes == {"ok", "duplicate", "error"}
\* the types of the messages of the feed that are not tickers
OtherTypes == {"subscriptions", "error"}

----------------------------------------------------------------------------
(* The pure parts of the code *)

\* line 78 without the test: every tick passes the filter
NeverStale(time, last) == FALSE

\* line 78 with `<` for `<=`: a tick at the last admitted time passes
IsStaleStrict(time, last) == time < last

\* line 78: the tick filter's test, `time <= this.lastTickTime`
IsStale(time, last) == time <= last

\* line 85 without the alignment
BucketUnaligned(time) == time

\* line 85: Math.floor(time / 60000) * 60000
Bucket(time) == (time \div INTERVAL_MS) * INTERVAL_MS

\* line 87 with `>=` for `>`
StartsNewKlineGe(cur, currentMinute, start) ==
    cur = Null \/ currentMinute >= start

\* line 87: `!this.currentKline || currentMinute > this.klineStartTime`
StartsNewKline(cur, currentMinute, start) ==
    cur = Null \/ currentMinute > start

\* lines 88-91 missing: a rollover starts whatever the flag says
RolloverNeverInFlight(flag) == FALSE

\* line 88: `if (this.processingKline)`, the test that stops a tick while a
\* rollover is in flight
RolloverInFlight(flag) == flag

\* lines 122-133: the kline a tick opens
NewKline(start, price, size) ==
    [symbol |-> "BTC-USD", interval |-> "1m",
     openTime |-> start, closeTime |-> start + INTERVAL_MS,
     open |-> price, high |-> price, low |-> price, close |-> price,
     volume |-> size, trades |-> 1]

Max(a, b) == IF a >= b THEN a ELSE b
Min(a, b) == IF a <= b THEN a ELSE b

\* lines 139-143 with `volume = size` for `volume += size`
UpdateKlineVolumeSet(k, price, size) ==
    [k EXCEPT !.high = Max(k.high, price),
              !.low = Min(k.low, price),
              !.close = price,
              !.volume = size,
              !.trades = k.trades + 1]

\* lines 139-143: a tick of the same window is folded in place
UpdateKline(k, price, size) ==
    [k EXCEPT !.high = Max(k.high, price),
              !.low = Min(k.low, price),
              !.close = price,
              !.volume = k.volume + size,
              !.trades = k.trades + 1]

\* lines 99-102: { ...this.currentKline, exchange: 'COINBASE' }
CompleteKline(k) ==
    [symbol |-> k.symbol, interval |-> k.interval,
     openTime |-> k.openTime, closeTime |-> k.closeTime,
     open |-> k.open, high |-> k.high, low |-> k.low, close |-> k.close,
     volume |-> k.volume, trades |-> k.trades, exchange |-> "COINBASE"]

\* lines 104-107 with push for unshift
PushAtTail(buf, k) ==
    LET a == buf \o <<k>>
    IN IF Len(a) > MAX_KLINES THEN SubSeq(a, 1, Len(a) - 1) ELSE a

\* lines 104-107 with `>=` for `>`
UnshiftPopEarly(buf, k) ==
    LET a == <<k>> \o buf
    IN IF Len(a) >= MAX_KLINES THEN SubSeq(a, 1, Len(a) - 1) ELSE a

\* lines 104-107: unshift, then pop when longer than MAX_KLINES
Unshift(buf, k) ==
    LET a == <<k>> \o buf
    IN IF Len(a) > MAX_KLINES THEN SubSeq(a, 1, Len(a) - 1) ELSE a

\* line 194: [...this.klines], a new array with the same elements
GetKlinesResult(buf) == [shared |-> FALSE, items |-> buf]

\* line 176 with `<=` for `<`
CanReconnectLe(n) == n <= MAX_RECONNECT_ATTEMPTS

\* line 176: `this.reconnectAttempts < this.MAX_RECONNECT_ATTEMPTS`
CanReconnect(n) == n < MAX_RECONNECT_ATTEMPTS

\* lines 175-184 without the increment of line 177
HandleReconnectUncounted(n, tm) ==
    IF CanReconnect(n) THEN [attempts |-> n, timers |-> tm + 1]
                       ELSE [attempts |-> n, timers |-> tm]

\* lines 175-184, up to the await of the delay: the counter and the number
\* of suspended handleReconnect calls after one more call
HandleReconnect(n, tm) ==
    IF CanReconnect(n) THEN [attempts |-> n + 1, timers |-> tm + 1]
                       ELSE [attempts |-> n, timers |-> tm]

\* line 50 missing: handleOpen leaves the counter alone
AttemptsKeptOnOpen(n) == n

\* line 50: what handleOpen stores in reconnectAttempts
AttemptsAfterOpen(n) == 0

\* lines 135-137 moved behind line 112: the flag is released only when the
\* save succeeded
FlagKeptOnFailure(outcome) == outcome # "ok"

\* lines 135-137: the finally block stores false in processingKline
\* whatever the outcome of the save
FlagAfterSettle(outcome) == FALSE

\* line 67 without the test: every decoded message is taken for a ticker
AnyTypeIsTicker(type) == TRUE

\* line 67: `message.type === 'ticker'`
IsTickerType(type) == type = "ticker"

\* lines 113-117 with a `throw error` after the console.error
SaveErrorRethrown(outcome) == outcome = "error"

\* lines 113-117: the catch block of the saveKline call logs an error other
\* than ConditionalCheckFailedException and has no throw statement: no
\* outcome of the call leaves the inner try
SaveErrorEscapes(outcome) == FALSE

\* line 58: `this.ws?.readyState === WebSocket.OPEN`
WsIsOpen(w, socks) == w # 0 /\ socks[w].state = "OPEN"

\* line 35: a WebSocket as its constructor returns it.  subs: the subscribe
\* messages sent on it; explicit: disconnect() called close() on it.
NewSocket ==
    [state |-> "CONNECTING", subs |-> 0, explicit |-> FALSE]

Event(kind, s, time, res) ==
    [kind |-> kind, sock |-> s, time |-> time, res |-> res]

----------------------------------------------------------------------------
Init ==
    /\ ws = 0
    /\ reconnectAttempts = 0
    /\ currentKline = Null
    /\ klineStartTime = 0
    /\ klines = <<>>
    /\ lastTickTime = 0
    /\ processingKline = FALSE
    /\ sockets = <<>>
    /\ hostCalls = 0
    /\ timers = 0
    /\ pending = Null
    /\ snap = Null
    /\ hostShifts = 0
    /\ saved = <<>>
    /\ folded = <<>>
    /\ received = <<>>
    /\ ev = Event("init", 0, 0, "")

----------------------------------------------------------------------------
(* The connector *)

\* lines 32-46: connect().  The constructor either returns a socket, which
\* becomes this.ws with the four handlers attached, or throws, and the catch
\* block runs handleReconnect.  tm: the suspended handleReconnect calls that
\* remain when connect() starts.
Connect(throws, tm, maxSockets) ==
    IF throws
    THEN LET r == HandleReconnect(reconnectAttempts, tm)
         IN /\ reconnectAttempts' = r.attempts
            /\ timers' = r.timers
            /\ UNCHANGED <<ws, sockets>>
    ELSE /\ Len(sockets) < maxSockets
         /\ sockets' = Append(sockets, NewSocket)
         /\ ws' = Len(sockets) + 1
         /\ timers' = tm
         /\ UNCHANGED reconnectAttempts

\* the host calls connect()
HostConnect(maxSockets, maxHost, mayThrow) ==
    /\ hostCalls < maxHost
    /\ hostCalls' = hostCalls + 1
    /\ \E throws \in mayThrow :
         /\ Connect(throws, timers, maxSockets)
         /\ ev' = Event("connect", 0, 0, IF throws THEN "threw" ELSE "created")
    /\ UNCHANGED <<aggVars, snap, hostShifts, received>>

\* lines 179-180: the delay of a suspended handleReconnect ends and it
\* calls connect()
ReconnectTimer(maxSockets, mayThrow) ==
    /\ timers > 0
    /\ \E throws \in mayThrow :
         /\ Connect(throws, timers - 1, maxSockets)
         /\ ev' = Event("timer", 0, 0, IF throws THEN "threw" ELSE "created")
    /\ UNCHANGED <<hostCalls, aggVars, snap, hostShifts, received>>

\* lines 48-62: socket s reports open, handleOpen runs
HandleOpen(s) ==
    /\ sockets[s].state = "CONNECTING"
    /\ reconnectAttempts' = AttemptsAfterOpen(reconnectAttempts)
    /\ LET opened == [sockets EXCEPT ![s].state = "OPEN"]
       IN sockets' = IF WsIsOpen(ws, opened)
                     THEN [opened EXCEPT ![ws].subs = @ + 1]
                     ELSE opened
    /\ ev' = Event("open", s, 0, "")
    /\ UNCHANGED <<ws, hostCalls, timers, aggVars, snap, hostShifts, received>>

\* lines 165-168: socket s reports an error (a refused or failed handshake,
\* a protocol error), handleError logs it.  The transport then closes the
\* socket and reports close.
HandleError(s) ==
    /\ sockets[s].state \in {"CONNECTING", "OPEN"}
    /\ sockets' = [sockets EXCEPT ![s].state = "CLOSING"]
    /\ ev' = Event("error", s, 0, "")
    /\ UNCHANGED <<ws, reconnectAttempts, hostCalls, timers, aggVars, snap, hostShifts, received>>

\* lines 170-173 and 175-178: socket s reports close, handleClose runs
\* handleReconnect up to its delay
HandleClose(s) ==
    /\ sockets[s].state \in {"OPEN", "CLOSING"}
    /\ LET r == HandleReconnect(reconnectAttempts, timers)
       IN /\ reconnectAttempts' = r.attempts
          /\ timers' = r.timers
          /\ sockets' = [sockets EXCEPT ![s].state = "CLOSED"]
          /\ ev' = Event("close", s, 0,
                         IF r.timers > timers THEN "retry" ELSE "exhausted")
    /\ UNCHANGED <<ws, hostCalls, aggVars, snap, hostShifts, received>>

\* lines 186-191: disconnect()
Disconnect ==
    /\ IF ws # 0
       THEN /\ sockets' = [sockets EXCEPT
                  ![ws].state = IF @ \in {"CONNECTING", "OPEN"}
                                THEN "CLOSING" ELSE @,
                  ![ws].explicit = TRUE]
            /\ ws' = 0
            /\ ev' = Event("disconnect", ws, 0, "closed")
       ELSE /\ UNCHANGED <<ws, sockets>>
            /\ ev' = Event("disconnect", 0, 0, "noop")
    /\ UNCHANGED <<reconnectAttempts, hostCalls, timers, aggVars, snap, hostShifts, received>>

----------------------------------------------------------------------------
(* The aggregator *)

Tick(time, price, size) == [time |-> time, price |-> price, size |-> size]

\* lines 75-145, up to the await of saveKline; kind: how the step is logged
ProcessTickerUpdateAs(kind, s, time, price, size) ==
    IF IsStale(time, lastTickTime)
    THEN /\ ev' = Event(kind, s, time, "stale")
         /\ UNCHANGED aggVars
    ELSE
      LET currentMinute == Bucket(time)
      IN /\ lastTickTime' = time
         /\ IF StartsNewKline(currentKline, currentMinute, klineStartTime)
            THEN IF RolloverInFlight(processingKline)
                 THEN /\ ev' = Event(kind, s, time, "guarded")
                      /\ UNCHANGED <<currentKline, klineStartTime, klines,
                                     processingKline, pending, saved, folded>>
                 ELSE IF currentKline # Null
                 THEN LET completeKline == CompleteKline(currentKline)
                      IN /\ processingKline' = TRUE
                         /\ klines' = Unshift(klines, completeKline)
                         /\ saved' = Append(saved, completeKline)
                         /\ pending' = [time |-> time, price |-> price,
                                        size |-> size,
                                        currentMinute |-> currentMinute]
                         /\ ev' = Event(kind, s, time, "rollover")
                         /\ UNCHANGED <<currentKline, klineStartTime, folded>>
                 ELSE /\ klineStartTime' = currentMinute
                      /\ currentKline' = NewKline(currentMinute, price, size)
                      /\ processingKline' = FALSE
                      /\ folded' = <<Tick(time, price, size)>>
                      /\ ev' = Event(kind, s, time, "opened")
                      /\ UNCHANGED <<klines, pending, saved>>
            ELSE /\ currentKline' = UpdateKline(currentKline, price, size)
                 /\ folded' = Append(folded, Tick(time, price, size))
                 /\ ev' = Event(kind, s, time, "folded")
                 /\ UNCHANGED <<klineStartTime, klines, processingKline,
                                pending, saved>>

\* lines 68, 75: processTickerUpdate called for a ticker message
ProcessTickerUpdate(s, time, price, size) ==
    ProcessTickerUpdateAs("ticker", s, time, price, size)

\* lines 64-69: a message of type ticker arrives on socket s.  The exchange
\* sends tickers on a connection that has been subscribed.
TickerMessage(s, time, price, size) ==
    /\ IsTickerType("ticker")
    /\ sockets[s].state = "OPEN"
    /\ sockets[s].subs > 0
    /\ ProcessTickerUpdate(s, time, price, size)
    /\ UNCHANGED <<connVars, snap, hostShifts, received>>

\* the same, in a run that keeps the ticker messages it delivers and ends
\* after maxLog of them
LoggedTickerMessage(s, time, price, size, maxLog) ==
    /\ Len(received) < maxLog
    /\ sockets[s].state = "OPEN"
    /\ sockets[s].subs > 0
    /\ ProcessTickerUpdate(s, time, price, size)
    /\ received' = Append(received, Tick(time, price, size))
    /\ UNCHANGED <<connVars, snap, hostShifts>>

\* lines 66-69: a message of another type, whatever fields it carries, is
\* decoded and not handed to processTickerUpdate
OtherMessage(s, type, time, price, size) ==
    /\ sockets[s].state = "OPEN"
    /\ IF IsTickerType(type)
       THEN ProcessTickerUpdateAs("message", s, time, price, size)
       ELSE /\ ev' = Event("message", s, time, "ignored")
            /\ UNCHANGED aggVars
    /\ UNCHANGED <<connVars, snap, hostShifts, received>>

\* lines 66, 70-72: JSON.parse throws, the error is logged
MalformedMessage(s) ==
    /\ sockets[s].state = "OPEN"
    /\ ev' = Event("message", s, 0, "malformed")
    /\ UNCHANGED <<connVars, aggVars, snap, hostShifts, received>>

\* lines 110-137: the pending saveKline call settles (resolves, rejects with
\* ConditionalCheckFailedException, rejects with another error); the
\* suspended processTickerUpdate opens the kline of its tick and releases
\* the flag
SaveKlineSettles(outcome) ==
    /\ pending # Null
    /\ IF SaveErrorEscapes(outcome)
       THEN \* the error leaves by the finally block of lines 135-137
            /\ ev' = Event("raised", 0, pending.time, outcome)
            /\ UNCHANGED <<klineStartTime, currentKline, folded>>
       ELSE /\ klineStartTime' = pending.currentMinute
            /\ currentKline' = NewKline(pending.currentMinute, pending.price,
                                        pending.size)
            /\ folded' = <<Tick(pending.time, pending.price, pending.size)>>
            /\ ev' = Event("saved", 0, pending.time, outcome)
    /\ processingKline' = FlagAfterSettle(outcome)
    /\ pending' = Null
    /\ UNCHANGED <<klines, lastTickTime, saved, connVars, snap, hostShifts, received>>

\* lines 193-195: the host calls getKlines() and keeps the array
GetKlines ==
    /\ snap' = GetKlinesResult(klines)
    /\ hostShifts' = 0
    /\ ev' = Event("getKlines", 0, 0, "")
    /\ UNCHANGED <<connVars, aggVars, received>>

\* the host removes the first element of the array it holds (shift());
\* an array that is this.klines itself changes this.klines
HostShiftsSnapshot ==
    /\ snap # Null
    /\ Len(snap.items) > 0
    /\ hostShifts < MaxShifts
    /\ hostShifts' = hostShifts + 1
    /\ snap' = [snap EXCEPT !.items = Tail(@)]
    /\ klines' = IF snap.shared THEN Tail(snap.items) ELSE klines
    /\ ev' = Event("hostShift", 0, 0, "")
    /\ UNCHANGED <<connVars, currentKline, klineStartTime, lastTickTime,
                   processingKline, pending, saved, folded, received>>

----------------------------------------------------------------------------
Next ==
    \/ HostConnect(MaxSockets, MaxHostConnects, {FALSE})
    \/ ReconnectTimer(MaxSockets, {FALSE})
    \/ \E s \in 1..Len(sockets) : HandleOpen(s)
    \/ \E s \in 1..Len(sockets) : HandleError(s)
    \/ \E s \in 1..Len(sockets) : HandleClose(s)
    \/ Disconnect
    \/ \E s \in 1..Len(sockets), t \in Times, p \in Prices, z \in Sizes :
          TickerMessage(s, t, p, z)
    \/ \E s \in 1..Len(sockets), ty \in OtherTypes, t \in Times, p \in Prices,
          z \in Sizes : OtherMessage(s, ty, t, p, z)
    \/ \E s \in 1..Len(sockets) : MalformedMessage(s)
    \/ \E o \in SaveOutcomes : SaveKlineSettles(o)

Spec == Init /\ [][Next]_vars

\* The aggregator on one connection that stays open, with a richer set of
\* ticks.
NextAgg ==
    \/ HostConnect(1, 1, {FALSE})
    \/ \E s \in 1..Len(sockets) : HandleOpen(s)
    \/ \E s \in 1..Len(sockets), t \in TimesAgg, p \in PricesAgg,
          z \in SizesAgg : TickerMessage(s, t, p, z)
    \/ \E o \in SaveOutcomes : SaveKlineSettles(o)

SpecAgg == Init /\ [][NextAgg]_vars

\* Every sequence of at most MaxMessages ticker messages on one connection.
NextScenario ==
    \/ HostConnect(1, 1, {FALSE})
    \/ \E s \in 1..Len(sockets) : HandleOpen(s)
    \/ \E s \in 1..Len(sockets), t \in TimesScenario, p \in PricesScenario,
          z \in SizesScenario : LoggedTickerMessage(s, t, p, z, MaxMessages)
    \/ \E o \in SaveOutcomes : SaveKlineSettles(o)

SpecScenario == Init /\ [][NextScenario]_vars

\* The connector alone, with enough sockets to exhaust the reconnect budget
\* and a constructor that may throw.
NextConn ==
    \/ HostConnect(MaxSocketsConn, MaxHostConnectsConn, BOOLEAN)
    \/ ReconnectTimer(MaxSocketsConn, BOOLEAN)
    \/ \E s \in 1..Len(sockets) : HandleOpen(s)
    \/ \E s \in 1..Len(sockets) : HandleError(s)
    \/ \E s \in 1..Len(sockets) : HandleClose(s)

SpecConn == Init /\ [][NextConn]_vars

\* The history buffer past its capacity: one connection, a tick every half
\* window, each save settling before the next tick arrives, and a host that
\* takes snapshots and shifts them.
NextHist ==
    \/ HostConnect(1, 1, {FALSE})
    \/ \E s \in 1..Len(sockets) : HandleOpen(s)
    \/ \E s \in 1..Len(sockets), t \in TimesHist, p \in Prices,
          z \in Sizes : pending = Null /\ TickerMessage(s, t, p, z)
    \/ \E o \in SaveOutcomes : SaveKlineSettles(o)
    \/ GetKlines
    \/ HostShiftsSnapshot

SpecHist == Init /\ [][NextHist]_vars

\* Rollovers across close / reconnect cycles: one connect() of the host,
\* sockets that open, close and are replaced by the reconnect, and ticks
\* over several windows, some of them arriving while a save is pending.
NextCycle ==
    \/ HostConnect(MaxSocketsCycle, 1, {FALSE})
    \/ ReconnectTimer(MaxSocketsCycle, {FALSE})
    \/ \E s \in 1..Len(sockets) : HandleOpen(s)
    \/ \E s \in 1..Len(sockets) : HandleError(s)
    \/ \E s \in 1..Len(sockets) : HandleClose(s)
    \/ Disconnect
    \/ \E s \in 1..Len(sockets), t \in TimesCycle, p \in Prices,
          z \in Sizes : TickerMessage(s, t, p, z)
    \/ \E o \in SaveOutcomes : SaveKlineSettles(o)

SpecCycle == Init /\ [][NextCycle]_vars

\* The aggregator on one connection, with a saveKline call that always
\* settles: the promise of line 110 is resolved or rejected by the store's
\* client, and the event loop then resumes processTickerUpdate.
NextLive ==
    \/ HostConnect(1, 1, {FALSE})
    \/ \E s \in 1..Len(sockets) : HandleOpen(s)
    \/ \E s \in 1..Len(sockets), t \in TimesLive, p \in PricesAgg,
          z \in SizesAgg : TickerMessage(s, t, p, z)
    \/ \E o \in SaveOutcomes : SaveKlineSettles(o)

SpecLive ==
    /\ Init /\ [][NextLive]_vars
    /\ WF_vars(\E o \in SaveOutcomes : SaveKlineSettles(o))

----------------------------------------------------------------------------
(* Properties *)

Last(seq) == seq[Len(seq)]

\* C1 (Spec): a ticker message passes the test of line 78 iff its time is
\* strictly greater than lastTickTime, and then lastTickTime becomes that
\* time; no other handler (connect, open, error, close, the reconnect timer,
\* disconnect, other messages, the save settling) changes lastTickTime; so
\* the admitted times strictly increase and lastTickTime never decreases.
C1_TickFilter ==
    [][ /\ ev'.kind = "ticker" =>
             /\ (ev'.res # "stale") <=> (ev'.time > lastTickTime)
             /\ lastTickTime' = IF ev'.time > lastTickTime
                                THEN ev'.time ELSE lastTickTime
        /\ ev'.kind # "ticker" => lastTickTime' = lastTickTime
        /\ lastTickTime' >= lastTickTime ]_vars

\* a tick is admitted on the socket of a reconnect, after the first socket
\* closed and after an earlier tick
C1_Witness ==
    /\ ev.kind = "ticker" /\ ev.res \in {"folded", "rollover"}
    /\ ev.sock = 2 /\ hostCalls = 1
    /\ sockets[1].state = "CLOSED"
    /\ lastTickTime = ev.time

\* C2 (Spec): a ticker message whose time is less than or equal to
\* lastTickTime changes neither lastTickTime, currentKline, klineStartTime,
\* klines nor processingKline, pushes nothing and hands nothing to saveKline.
C2_StaleTickChangesNothing ==
    [][ (ev'.kind = "ticker" /\ ev'.time <= lastTickTime) =>
            UNCHANGED <<lastTickTime, currentKline, klineStartTime, klines,
                        processingKline, pending, saved>> ]_vars

\* a tick at exactly the last admitted time has been dropped while a kline
\* is open
C2_Witness ==
    /\ ev.kind = "ticker" /\ ev.res = "stale"
    /\ ev.time = lastTickTime
    /\ currentKline # Null
    /\ folded[Len(folded)].time = ev.time

EmittedFor(w, log) == {i \in 1..Len(log) : log[i].openTime = w}

\* C3 (SpecAgg): when the current kline holds the ticks of window W and the
\* next admitted tick belongs to a later window, then after that tick's step
\* exactly one kline has been handed to saveKline for W, it is the last one
\* handed over and the head of klines, its openTime is the start of W, and
\* the current kline is still the one of W; and whenever the current kline is
\* replaced by the kline of another window, the completed kline of the old
\* window is already the head of klines and the last one handed to saveKline.
C3_RolloverLaw ==
    [][ /\ ( /\ ev'.kind = "ticker" /\ ev'.time > lastTickTime
             /\ currentKline # Null
             /\ (ev'.time \div INTERVAL_MS) > (folded[1].time \div INTERVAL_MS) )
           => /\ Cardinality(EmittedFor(currentKline.openTime, saved')) = 1
              /\ Last(saved').openTime
                    = (folded[1].time \div INTERVAL_MS) * INTERVAL_MS
              /\ klines'[1] = Last(saved')
              /\ currentKline' = currentKline
              /\ processingKline'
        /\ ( /\ currentKline # Null /\ currentKline' # Null
             /\ currentKline'.openTime # currentKline.openTime )
           => /\ saved # <<>> /\ klines # <<>>
              /\ Last(saved).openTime = currentKline.openTime
              /\ Last(saved).close = currentKline.close
              /\ Last(saved).volume = currentKline.volume
              /\ klines[1] = Last(saved)
              /\ saved' = saved /\ klines' = klines ]_vars

\* a kline of two ticks has been completed and the kline of a later window
\* has replaced it
C3_Witness ==
    /\ ev.kind = "saved"
    /\ Len(saved) = 1 /\ saved[1].trades = 2
    /\ currentKline # Null /\ currentKline.openTime > saved[1].openTime

RECURSIVE SumSizes(_)
SumSizes(ticks) ==
    IF ticks = <<>> THEN 0 ELSE ticks[1].size + SumSizes(Tail(ticks))

PricesOf(ticks) == {ticks[i].price : i \in 1..Len(ticks)}

\* the reference aggregation of a non-empty sequence of ticks
RefCandle(ticks) ==
    [open |-> ticks[1].price,
     high |-> CHOOSE p \in PricesOf(ticks) : \A q \in PricesOf(ticks) : p >= q,
     low |-> CHOOSE p \in PricesOf(ticks) : \A q \in PricesOf(ticks) : p <= q,
     close |-> ticks[Len(ticks)].price,
     volume |-> SumSizes(ticks),
     trades |-> Len(ticks)]

Ohlcv(k) ==
    [open |-> k.open, high |-> k.high, low |-> k.low, close |-> k.close,
     volume |-> k.volume, trades |-> k.trades]

ScenarioTicks ==
    <<Tick(0, 100, 1), Tick(30000, 105, 2), Tick(60000, 95, 1)>>

ShiftedScenarioTicks ==
    <<Tick(60000, 100, 1), Tick(90000, 105, 2), Tick(120000, 95, 1)>>

\* C4 as stated, its scenario (SpecScenario): after the ticker messages
\* (0, 100, 1), (30000, 105, 2), (60000, 95, 1) exactly one kline has been
\* completed, {open 100, high 105, low 100, close 105, volume 3, trades 2,
\* openTime 0, closeTime 60000}.
C4_ScenarioAsStated ==
    received = ScenarioTicks =>
        /\ Len(saved) = 1
        /\ Ohlcv(saved[1]) = [open |-> 100, high |-> 105, low |-> 100,
                              close |-> 105, volume |-> 3, trades |-> 2]
        /\ saved[1].openTime = 0 /\ saved[1].closeTime = 60000

\* C4 amended (SpecScenario): the current kline is the reference aggregation
\* of the ticks folded into it, a completed kline is the reference
\* aggregation of the ticks folded in its window and not of the tick that
\* triggers the rollover; the tick at time 0 does not pass the filter, so the
\* scenario completes {open 105, high 105, low 105, close 105, volume 2,
\* trades 1, openTime 0, closeTime 60000}, and the same ticks one window
\* later complete {open 100, high 105, low 100, close 105, volume 3,
\* trades 2, openTime 60000, closeTime 120000}.
C4_CompletedCandleIsAggregate ==
    /\ [](currentKline # Null => Ohlcv(currentKline) = RefCandle(folded))
    /\ [][ Len(saved') > Len(saved) =>
             /\ Len(saved') = Len(saved) + 1
             /\ Ohlcv(Last(saved')) = RefCandle(folded)
             /\ \A i \in 1..Len(folded) : folded[i].time < ev'.time ]_vars
    /\ [](received = ScenarioTicks =>
             /\ Len(saved) = 1
             /\ Ohlcv(saved[1]) = [open |-> 105, high |-> 105, low |-> 105,
                                   close |-> 105, volume |-> 2, trades |-> 1]
             /\ saved[1].openTime = 0 /\ saved[1].closeTime = 60000)
    /\ [](received = ShiftedScenarioTicks =>
             /\ Len(saved) = 1
             /\ Ohlcv(saved[1]) = [open |-> 100, high |-> 105, low |-> 100,
                                   close |-> 105, volume |-> 3, trades |-> 2]
             /\ saved[1].openTime = 60000 /\ saved[1].closeTime = 120000)

\* the three ticks one window later have been delivered and the third has
\* completed the kline of the first two
C4_Witness ==
    /\ received = ShiftedScenarioTicks
    /\ ev.kind = "ticker" /\ ev.res = "rollover"
    /\ Len(saved) = 1 /\ saved[1].trades = 2 /\ saved[1].volume = 3

CandleOk(k) ==
    /\ k.closeTime = k.openTime + 60000
    /\ k.openTime % 60000 = 0
    /\ k.low <= k.open /\ k.low <= k.close /\ k.low <= k.high
    /\ k.high >= k.open /\ k.high >= k.close
    /\ k.trades >= 1
    /\ k.volume >= 0

\* the window of time t starts at w: w = floor(t / 60000) * 60000
WindowOf(t, w) == w % 60000 = 0 /\ w <= t /\ t < w + 60000

\* C5 (SpecAgg): the current kline, every kline of the history buffer and
\* every kline handed to saveKline has closeTime = openTime + 60000, an
\* openTime that is a multiple of 60000, low <= open, close, high and
\* high >= open, close, low, trades >= 1 and volume >= 0; the openTime is the
\* floor-aligned time of the tick that opened the kline; and the volume of
\* the current kline never decreases while it stays the current kline.
C5_CandleInvariants ==
    /\ [] /\ currentKline # Null =>
               /\ CandleOk(currentKline)
               /\ WindowOf(folded[1].time, currentKline.openTime)
          /\ \A i \in 1..Len(klines) : CandleOk(klines[i])
          /\ \A i \in 1..Len(saved) : CandleOk(saved[i])
    /\ [][ /\ Len(saved') > Len(saved) =>
                WindowOf(folded[1].time, Last(saved').openTime)
           /\ ( /\ currentKline # Null /\ currentKline' # Null
                /\ currentKline'.openTime = currentKline.openTime )
              => currentKline'.volume >= currentKline.volume ]_vars

\* a kline of two ticks, one of size 0 and one below the opening price, has
\* been completed and a later kline is open
C5_Witness ==
    /\ saved # <<>> /\ currentKline # Null
    /\ saved[1].trades = 2 /\ saved[1].volume = 1
    /\ saved[1].low < saved[1].open
    /\ currentKline.openTime > saved[1].openTime

\* the n most recent entries of a log, newest first
Recent(log, n) ==
    [i \in 1..Min(Len(log), n) |-> log[Len(log) - i + 1]]

\* C6 (SpecHist): klines never holds more than 50 klines and is always the
\* (up to) 50 most recently completed klines, newest first; klines changes
\* only by a completed kline inserted at the head, the tail dropped when the
\* length would pass 50; getKlines returns the content of klines, and
\* removing an element from the returned array leaves klines unchanged.
C6_HistoryBuffer ==
    /\ [] /\ Len(klines) <= 50
          /\ klines = Recent(saved, 50)
    /\ [][ /\ klines' # klines =>
                /\ Len(saved') = Len(saved) + 1
                /\ klines' = SubSeq(<<Last(saved')>> \o klines, 1,
                                    Min(Len(klines) + 1, 50))
           /\ ev'.kind = "getKlines" =>
                snap'.items = klines /\ klines' = klines
           /\ ev'.kind = "hostShift" =>
                snap'.items = Tail(snap.items) /\ klines' = klines ]_vars

\* more than 50 klines have been completed, the buffer is full, and the host
\* has shifted a snapshot taken of the full buffer
C6_Witness ==
    /\ Len(saved) >= MAX_KLINES + 2
    /\ Len(klines) = MAX_KLINES
    /\ ev.kind = "hostShift"
    /\ Len(snap.items) = MAX_KLINES - 1
    /\ snap.items[1] = klines[2]

\* C7 (SpecConn): reconnectAttempts stays within 0..5; a close event handled
\* when reconnectAttempts = 5 starts no timer, creates no socket and leaves
\* the counter at 5; and once reconnectAttempts = 5 with no reconnect delay
\* pending, every step other than an open event or a connect() call of the
\* host leaves reconnectAttempts = 5, no delay pending and no new socket.
C7_ReconnectBudget ==
    /\ [](reconnectAttempts \in 0..5)
    /\ [][ /\ (ev'.kind = "close" /\ reconnectAttempts = 5) =>
                /\ reconnectAttempts' = 5 /\ timers' = timers
                /\ Len(sockets') = Len(sockets) /\ ws' = ws
           /\ ( /\ reconnectAttempts = 5 /\ timers = 0
                /\ ev'.kind \notin {"open", "connect"} ) =>
                /\ reconnectAttempts' = 5 /\ timers' = 0
                /\ Len(sockets') = Len(sockets) ]_vars

\* one connect() of the host, five reconnects, and the close of the sixth
\* socket finds the budget used up
C7_Witness ==
    /\ ev.kind = "close" /\ ev.res = "exhausted"
    /\ reconnectAttempts = MAX_RECONNECT_ATTEMPTS /\ timers = 0
    /\ hostCalls = 1
    /\ Len(sockets) = MAX_RECONNECT_ATTEMPTS + 1
    /\ \A s \in 1..Len(sockets) : sockets[s].state = "CLOSED"

\* C8 as stated (Spec): the close event of a socket that disconnect() closed
\* does not start the reconnect path.
C8_DisconnectSuppressesReconnect ==
    ~ (ev.kind = "close" /\ ev.res = "retry" /\ sockets[ev.sock].explicit)

\* C9 as stated (Spec): an error event and a close event each enter the
\* reconnect path: with reconnectAttempts < 5 the counter grows by one and a
\* reconnect delay starts.
C9_ErrorOrCloseReconnects ==
    [][ (ev'.kind \in {"error", "close"} /\ reconnectAttempts < 5) =>
            /\ reconnectAttempts' = reconnectAttempts + 1
            /\ timers' = timers + 1 ]_vars

\* C9 amended (Spec): a close event enters the reconnect path: with
\* reconnectAttempts < 5 the counter grows by exactly one and one reconnect
\* delay starts, otherwise nothing changes; when a delay ends, connect() runs
\* and its new socket becomes this.ws; an error event changes neither the
\* counter, the pending delays nor this.ws, so a failure (error, then close)
\* is counted once, by its close event.
C9_CloseReconnects ==
    [][ /\ ev'.kind = "close" =>
             /\ sockets[ev'.sock].state # "CLOSED"
             /\ sockets'[ev'.sock].state = "CLOSED"
             /\ IF reconnectAttempts < 5
                THEN /\ reconnectAttempts' = reconnectAttempts + 1
                     /\ timers' = timers + 1
                ELSE /\ reconnectAttempts' = reconnectAttempts
                     /\ timers' = timers
        /\ ev'.kind = "timer" =>
             /\ timers' = timers - 1
             /\ Len(sockets') = Len(sockets) + 1
             /\ ws' = Len(sockets')
             /\ sockets'[ws'].state = "CONNECTING"
        /\ ev'.kind = "error" =>
             /\ reconnectAttempts' = reconnectAttempts
             /\ timers' = timers /\ ws' = ws
             /\ Len(sockets') = Len(sockets) ]_vars

\* a socket that failed (error, then close) without disconnect() has been
\* counted once and its reconnect has created the next socket
C9_Witness ==
    /\ ev.kind = "timer" /\ ev.res = "created"
    /\ reconnectAttempts = 1 /\ timers = 0
    /\ Len(sockets) = 2 /\ hostCalls = 1
    /\ sockets[1].state = "CLOSED" /\ ~sockets[1].explicit
    /\ sockets[1].subs = 0

\* C10 (Spec): an open event sets reconnectAttempts to 0, and no other step
\* (connect(), the creation of a socket, a message, disconnect(), an error
\* or close event, the save settling) lowers it.
C10_ResetOnlyOnOpen ==
    [][ /\ ev'.kind = "open" => reconnectAttempts' = 0
        /\ ev'.kind # "open" => reconnectAttempts' >= reconnectAttempts
        /\ ev'.kind \in {"connect", "timer", "ticker", "message",
                         "disconnect", "saved", "error"} =>
             reconnectAttempts' = reconnectAttempts ]_vars

\* the socket of a reconnect has opened: the counter, at least 1 before, is
\* 0 again
C10_Witness ==
    /\ ev.kind = "open" /\ ev.sock = 2 /\ hostCalls = 1
    /\ sockets[1].state = "CLOSED"
    /\ reconnectAttempts = 0

\* C11 (SpecAgg): the pending saveKline call settles with every outcome
\* (success, ConditionalCheckFailedException, another error) in the same
\* way: nothing is raised out of processTickerUpdate, klines and the log of
\* saveKline calls are unchanged and still hold the completed kline at the
\* head, the kline of the triggering tick is opened (openTime its bucket,
\* open = high = low = close its price, volume its size, trades 1) and the
\* flag is released; the next admitted tick is then folded or starts the
\* next rollover, it is not stopped by the flag.
C11_SaveFailureAbsorbed ==
    [][ /\ pending # Null /\ pending' = Null =>
             /\ ev'.kind = "saved"
             /\ ev'.res \in SaveOutcomes
             /\ klines' = klines /\ saved' = saved
             /\ klines[1] = Last(saved)
             /\ klineStartTime' = Bucket(pending.time)
             /\ currentKline' = NewKline(Bucket(pending.time), pending.price,
                                         pending.size)
             /\ ~processingKline'
        /\ ev'.kind = "raised" => FALSE
        /\ (ev.kind = "saved" /\ ev'.kind = "ticker"
               /\ ev'.time > lastTickTime) =>
             ev'.res \in {"folded", "rollover"} ]_vars

\* the save of the second completed kline has failed with an error other
\* than the duplicate key, and the kline of the triggering tick is open
C11_Witness ==
    /\ ev.kind = "saved" /\ ev.res = "error"
    /\ Len(saved) = 2 /\ klines[1] = saved[2]
    /\ ~processingKline
    /\ currentKline.openTime = Bucket(ev.time)
    /\ currentKline.trades = 1

\* C12 (SpecAgg): whenever a kline is handed to saveKline, it is one kline,
\* no earlier call is still pending, the kline is already the head of
\* klines with the klines completed before it behind it, and its openTime
\* is greater than that of every kline handed over before; so the calls are
\* issued in strictly increasing openTime order under every interleaving of
\* ticker messages and settling saves.
C12_EmissionOrder ==
    /\ [](\A i, j \in 1..Len(saved) :
             i < j => saved[i].openTime < saved[j].openTime)
    /\ [](saved # <<>> => klines[1] = Last(saved))
    /\ [][ Len(saved') # Len(saved) =>
             /\ pending = Null /\ pending' # Null
             /\ saved' = Append(saved, klines'[1])
             /\ Tail(klines') = klines
             /\ \A i \in 1..Len(saved) :
                    saved[i].openTime < klines'[1].openTime ]_vars

\* the second completed kline has just been pushed and handed over, behind
\* it the first one, whose save has settled
C12_Witness ==
    /\ ev.kind = "ticker" /\ ev.res = "rollover"
    /\ Len(saved) = 2 /\ pending # Null
    /\ klines = <<saved[2], saved[1]>>
    /\ saved[1].openTime < saved[2].openTime

\* C13 as stated (SpecAgg): while a saveKline call is pending, a ticker
\* message that passes the tick filter is aggregated: it is folded into the
\* current kline or opens one, it is not discarded.
C13_AggregatesWhileSavePending ==
    [][ (pending # Null /\ ev'.kind = "ticker" /\ ev'.time > lastTickTime) =>
            /\ ev'.res \in {"folded", "opened", "rollover"}
            /\ Last(folded').time = ev'.time ]_vars

\* C14 as stated (SpecAgg): while one saveKline call is pending at most one
\* ticker message is dropped by the flag: a message is dropped by the flag
\* only when the last admitted tick is still the one that started the
\* rollover; and the current kline and the completed klines keep the kline
\* invariants.
C14_AtMostOneTickLost ==
    /\ [][ (ev'.kind = "ticker" /\ ev'.res = "guarded") =>
              lastTickTime = pending.time ]_vars
    /\ [] /\ currentKline # Null => CandleOk(currentKline)
          /\ \A i \in 1..Len(saved) : CandleOk(saved[i])

\* C15 (Spec): a kline is pushed to klines or handed to saveKline only in
\* the step of a ticker message that passes the tick filter, while a current
\* kline exists and no save is pending, with a bucket strictly greater than
\* klineStartTime; no connect(), reconnect delay, open, error, close,
\* disconnect(), other message or settling save does it; the first admitted
\* tick opens its kline and emits nothing; and the kline that is open while
\* no save is pending has not been emitted: its window is later than every
\* window handed to saveKline.
C15_FinalizedOnlyByLaterTick ==
    /\ [][ /\ (saved' # saved \/ klines' # klines) =>
                /\ ev'.kind = "ticker" /\ ev'.time > lastTickTime
                /\ currentKline # Null /\ ~processingKline
                /\ (ev'.time \div 60000) * 60000 > klineStartTime
                /\ Last(saved') = CompleteKline(currentKline)
           /\ ev'.kind # "ticker" => (saved' = saved /\ klines' = klines)
           /\ ( /\ ev'.kind = "ticker" /\ ev'.time > lastTickTime
                /\ currentKline = Null ) =>
                /\ saved' = saved /\ klines' = klines
                /\ currentKline' # Null
                /\ currentKline'.trades = 1 ]_vars
    /\ []((currentKline # Null /\ pending = Null) =>
             \A i \in 1..Len(saved) :
                 saved[i].openTime < currentKline.openTime)
    /\ [](currentKline = Null => (saved = <<>> /\ klines = <<>>))

\* disconnect() has been called while the kline of a later window is open,
\* after one kline was completed: the open kline has not been emitted
C15_Witness ==
    /\ ev.kind = "disconnect" /\ ev.res = "closed"
    /\ Len(saved) = 1 /\ klines = saved
    /\ pending = Null /\ currentKline # Null
    /\ currentKline.openTime > saved[1].openTime

\* C16 (Spec): a message of a type other than ticker, whatever time, price
\* and size it carries, and a message that fails to decode change neither
\* lastTickTime, currentKline, klineStartTime, klines, processingKline, the
\* pending save, the log of saveKline calls, reconnectAttempts, this.ws, the
\* sockets' states nor the pending reconnect delays; the message is ignored
\* or its decode error logged, nothing is raised.
C16_OtherMessagesDropped ==
    [][ ev'.kind = "message" =>
            /\ ev'.res \in {"ignored", "malformed"}
            /\ UNCHANGED <<lastTickTime, currentKline, klineStartTime, klines,
                           processingKline, pending, saved, folded>>
            /\ UNCHANGED <<reconnectAttempts, ws, sockets, timers>> ]_vars

\* a message of another type that carries a time later than the last
\* admitted tick has been ignored while a kline is open
C16_Witness ==
    /\ ev.kind = "message" /\ ev.res = "ignored"
    /\ currentKline # Null
    /\ ev.time > lastTickTime
    /\ (ev.time \div 60000) * 60000 > klineStartTime

\* C17 as stated (Spec): every socket has been sent one subscribe message
\* if it is open, none if it has not opened yet, and never more than one,
\* also when a second connect() has replaced this.ws before the open event
\* of the first socket.
C17_SubscribeOncePerConnection ==
    \A s \in 1..Len(sockets) :
        /\ sockets[s].subs <= 1
        /\ sockets[s].state = "CONNECTING" => sockets[s].subs = 0
        /\ sockets[s].state = "OPEN" => sockets[s].subs = 1

\* C18 (SpecAgg): processingKline is true exactly while a saveKline call is
\* pending, and a rollover starts only when none is pending; while
\* processingKline is true, an admitted ticker message whose bucket is
\* greater than klineStartTime returns and changes neither klines, the log
\* of saveKline calls, currentKline, klineStartTime nor the flag; so from
\* the start of a rollover until its save settles nothing more is pushed or
\* handed to saveKline, however many ticks of later buckets arrive.
C18_OneRolloverInFlight ==
    /\ [](processingKline <=> pending # Null)
    /\ [][ /\ ( /\ processingKline
                /\ ev'.kind = "ticker" /\ ev'.time > lastTickTime
                /\ (ev'.time \div 60000) * 60000 > klineStartTime ) =>
                /\ ev'.res = "guarded"
                /\ UNCHANGED <<klines, saved, currentKline, klineStartTime,
                               processingKline, pending>>
           /\ Len(saved') > Len(saved) =>
                (~processingKline /\ processingKline')
           /\ processingKline => (saved' = saved /\ klines' = klines) ]_vars

\* while the first rollover is in flight, a tick of a bucket later than the
\* one of the tick that started it has been stopped by the flag
C18_Witness ==
    /\ ev.kind = "ticker" /\ ev.res = "guarded"
    /\ processingKline /\ Len(saved) = 1 /\ Len(klines) = 1
    /\ Bucket(ev.time) > pending.currentMinute
    /\ klineStartTime < pending.currentMinute

\* C19 (SpecCycle): over runs with close / reconnect cycles and ticks
\* dropped by the flag, klineStartTime never decreases and is strictly
\* greater after every rollover; the klines handed to saveKline have
\* strictly increasing, hence pairwise distinct, openTimes, so no window is
\* handed over twice; and the openTimes in klines strictly decrease from head
\* to tail.
C19_NoWindowEmittedTwice ==
    /\ [][ /\ klineStartTime' >= klineStartTime
           /\ ev'.kind = "saved" => klineStartTime' > klineStartTime
           /\ Len(saved') > Len(saved) =>
                \A i \in 1..Len(saved) :
                    saved[i].openTime # Last(saved').openTime ]_vars
    /\ [](\A i, j \in 1..Len(saved) :
             i # j => saved[i].openTime # saved[j].openTime)
    /\ [](\A i \in 1..Len(klines) - 1 :
             klines[i].openTime > klines[i + 1].openTime)

\* two klines have been completed, the second on the socket of a reconnect
\* after the first socket closed
C19_Witness ==
    /\ ev.kind = "saved"
    /\ Len(saved) = 2 /\ Len(klines) = 2
    /\ Len(sockets) >= 2 /\ sockets[1].state = "CLOSED"
    /\ sockets[2].subs = 1
    /\ klineStartTime > saved[2].openTime
    /\ lastTickTime > ev.time

\* C20 (SpecLive): whenever processingKline is true, and given that the
\* pending saveKline call settles, processingKline eventually is false; the
\* step that releases the flag is the settling of the save, with every
\* outcome, and after it the current kline is the one opened from the tick
\* that started the rollover: openTime its bucket, open = high = low =
\* close its price, volume its size, trades 1; and the flag is true only
\* while a save is pending.
C20_FlagReleased ==
    /\ processingKline ~> ~processingKline
    /\ [](processingKline => pending # Null)
    /\ [][ /\ ev'.kind = "saved" => ~processingKline'
           /\ (processingKline /\ ~processingKline') =>
                /\ ev'.kind = "saved" /\ ev'.res \in SaveOutcomes
                /\ klineStartTime' = (pending.time \div 60000) * 60000
                /\ currentKline' =
                      [symbol |-> "BTC-USD", interval |-> "1m",
                       openTime |-> (pending.time \div 60000) * 60000,
                       closeTime |-> (pending.time \div 60000) * 60000 + 60000,
                       open |-> pending.price, high |-> pending.price,
                       low |-> pending.price, close |-> pending.price,
                       volume |-> pending.size, trades |-> 1] ]_vars

\* a save that failed has released the flag, after ticks were stopped by
\* the flag while it was pending
C20_Witness ==
    /\ ev.kind = "saved" /\ ev.res = "error"
    /\ ~processingKline /\ pending = Null
    /\ lastTickTime > ev.time
    /\ currentKline.openTime = Bucket(ev.time)
    /\ currentKline.volume = 0 /\ currentKline.open = 95

====
